---- MODULE Spec2Model ----
(***************************************************************************)
(* A model of generate.py (readme-generator): the document patcher, the    *)
(* ignore-aware file discovery, the table renderers, the tolerant JSON     *)
(* cleaning, the Dockerfile parser and the orchestrator main().            *)
(*                                                                         *)
(* Text is a sequence of one-character strings (or, in the orchestrator,   *)
(* of larger chunks that the code concatenates as they are).               *)
(***************************************************************************)
EXTENDS Integers, Sequences, FiniteSets, TLC

VARIABLES
    pc,           \* control position: of main(), or "call"/"return" of a function
    readme,       \* the target document: [exists, content]
    readme0,      \* the target document before the first call / the run
    new_section,  \* argument of update_readme_table
    ncalls,       \* number of update_readme_table calls made so far
    after_first,  \* the document as the first call left it
    raised,       \* TRUE when the last call raised (re.error) before writing
    headers,      \* argument of the table renderers
    rows,         \* argument of the table renderers
    html_out,     \* result of generate_html_table
    md_out,       \* result of generate_markdown_table
    json_text,    \* text read by parse_json_file on its retry path
    cleaned,      \* json_text after remove_json_comments, remove_trailing_commas
    df_file,      \* a build file: [readable, lines]
    df_info,      \* result of parse_dockerfile
    fs,           \* the scanned tree: [files, ignore]
    filename_regex, \* argument of find_files
    matches,      \* result of find_files
    project,      \* what is on disk: [json, build, compose], and the --unified flag
    run,          \* number of the current run of main
    doc1,         \* the document the first run left
    failed_at,    \* the step of main that raised, "" when none did
    compose_data, additional_dockerfiles, dockerfiles, found,
    tasks_data, launch_data, devcontainer_data, dockerfile_data,
    md_content    \* locals of main

patchVars == <<readme, readme0, new_section, ncalls, after_first, raised>>
tableVars == <<headers, rows, html_out, md_out>>
jsonVars == <<json_text, cleaned>>
dfVars == <<df_file, df_info>>
findVars == <<fs, filename_regex, matches>>
localVars == <<compose_data, additional_dockerfiles, dockerfiles, found,
               tasks_data, launch_data, devcontainer_data, dockerfile_data, md_content>>
mainVars == <<project, run, doc1, failed_at, localVars>>

vars == <<pc, patchVars, tableVars, jsonVars, dfVars, findVars, mainVars>>

notPatch == <<tableVars, jsonVars, dfVars, findVars, mainVars>>
notTable == <<patchVars, jsonVars, dfVars, findVars, mainVars>>
notJson == <<patchVars, tableVars, dfVars, findVars, mainVars>>
notDf == <<patchVars, tableVars, jsonVars, findVars, mainVars>>
notFind == <<patchVars, tableVars, jsonVars, dfVars, mainVars>>
notMain == <<new_section, ncalls, after_first, raised, tableVars, jsonVars, dfVars,
             filename_regex, matches>>

IdlePatch ==
    /\ readme = [exists |-> FALSE, content |-> <<>>]
    /\ readme0 = readme
    /\ new_section = <<>>
    /\ ncalls = 0
    /\ after_first = readme
    /\ raised = FALSE

IdleTable == headers = <<>> /\ rows = <<>> /\ html_out = <<>> /\ md_out = <<>>
IdleJson == json_text = <<>> /\ cleaned = <<>>
IdleDf ==
    /\ df_file = [readable |-> FALSE, lines |-> <<>>]
    /\ df_info = [base_image |-> <<>>, exposed_ports |-> <<>>]

IdleFind == fs = [files |-> {}, ignore |-> <<>>] /\ filename_regex = "" /\ matches = <<>>

\* the locals of main before main assigns them
NoLocals ==
    /\ compose_data = [services |-> <<>>]
    /\ additional_dockerfiles = {}
    /\ dockerfiles = <<>>
    /\ found = [tasks |-> <<>>, launch |-> <<>>, devcontainer |-> <<>>]
    /\ tasks_data = <<>>
    /\ launch_data = <<>>
    /\ devcontainer_data = <<>>
    /\ dockerfile_data = <<>>
    /\ md_content = <<>>

IdleMain ==
    /\ project = [json |-> <<>>, build |-> <<>>,
                  compose |-> [kind |-> "missing", data |-> [t |-> "null"]],
                  unified |-> FALSE]
    /\ run = 0
    /\ doc1 = [exists |-> FALSE, content |-> <<>>]
    /\ failed_at = ""
    /\ NoLocals

(***************************************************************************)
(* Sequence helpers                                                        *)
(***************************************************************************)
Min(S) == CHOOSE x \in S : \A y \in S : x <= y

\* pat occurs in text at index i
IsAt(text, i, pat) ==
    /\ i >= 1
    /\ i + Len(pat) - 1 <= Len(text)
    /\ \A k \in 1..Len(pat) : text[i + k - 1] = pat[k]

\* Python's "pat in text"
Contains(text, pat) == \E i \in 1..(Len(text) + 1) : IsAt(text, i, pat)

\* index of the first occurrence of pat in text at or after i, 0 when none
FindFrom(text, i, pat) ==
    LET S == {j \in i..(Len(text) + 1) : IsAt(text, j, pat)}
    IN IF S = {} THEN 0 ELSE Min(S)

RECURSIVE Concat(_)
Concat(ss) == IF ss = <<>> THEN <<>> ELSE Head(ss) \o Concat(Tail(ss))

\* all sequences over S of length at most n
SeqsUpTo(S, n) == UNION {[1..k -> S] : k \in 0..n}

(***************************************************************************)
(* update_readme_table                                                     *)
(***************************************************************************)
start_marker ==
    <<"<", "!", "-", "-", " ", "R", "E", "A", "D", "M", "E", "_", "D", "E",
      "V", "I", "N", "F", "O", ":", "S", "T", "A", "R", "T", " ", "-", "-", ">">>

end_marker ==
    <<"<", "!", "-", "-", " ", "R", "E", "A", "D", "M", "E", "_", "D", "E",
      "V", "I", "N", "F", "O", ":", "E", "N", "D", " ", "-", "-", ">">>

wrapped_section(section) == start_marker \o <<"\n">> \o section \o <<"\n">> \o end_marker

\* Characters that re's template parser treats specially after a backslash.
TemplateEscapes == {"n", "t", "\\"}
AsciiAlnum == {"a", "b", "d", "n", "t", "x", "g", "0", "1"}

EscapeValue(c) == IF c = "n" THEN "\n" ELSE IF c = "t" THEN "\t" ELSE "\\"

\* re.sub parses a string replacement as a template: \n, \t, \\ are
\* translated, a backslash before any other ASCII letter or digit (no group
\* exists in the pattern) or at the end raises re.error, and a backslash
\* before anything else is kept.  Result: [ok, text].
RECURSIVE expand_template(_)
expand_template(repl) ==
    LET B == {i \in 1..Len(repl) : repl[i] = "\\"}
    IN IF B = {} THEN [ok |-> TRUE, text |-> repl]
       ELSE LET i == Min(B)
            IN IF i = Len(repl) THEN [ok |-> FALSE, text |-> <<>>]
               ELSE LET c == repl[i + 1]
                        r == expand_template(SubSeq(repl, i + 2, Len(repl)))
                        lit == SubSeq(repl, 1, i - 1)
                    IN IF c \in TemplateEscapes
                       THEN [ok |-> r.ok, text |-> lit \o <<EscapeValue(c)>> \o r.text]
                       ELSE IF c \in AsciiAlnum
                       THEN [ok |-> FALSE, text |-> <<>>]
                       ELSE [ok |-> r.ok, text |-> lit \o <<"\\", c>> \o r.text]

\* re.sub(escape(start) + ".*?" + escape(end), repl, content, flags=DOTALL)
\* from position pos on: every leftmost, shortest, non-overlapping match is
\* replaced by the expanded template.
RECURSIVE re_sub(_, _, _)
re_sub(content, pos, repl) ==
    LET i == FindFrom(content, pos, start_marker)
        j == IF i = 0 THEN 0 ELSE FindFrom(content, i + Len(start_marker), end_marker)
    IN IF j = 0
       THEN SubSeq(content, pos, Len(content))
       ELSE SubSeq(content, pos, i - 1) \o repl
            \o re_sub(content, j + Len(end_marker), repl)

Absent == [exists |-> FALSE, content |-> <<>>]
Present(text) == [exists |-> TRUE, content |-> text]

\* update_readme_table with the document opened for writing before the
\* new content is computed: a call that raises leaves it truncated
update_readme_table_open_first(section, doc) ==
    LET wrapped == wrapped_section(section)
    IN IF doc.exists
       THEN IF Contains(doc.content, start_marker) /\ Contains(doc.content, end_marker)
            THEN LET t == expand_template(wrapped)
                 IN IF t.ok
                    THEN [raised |-> FALSE,
                          doc |-> Present(re_sub(doc.content, 1, t.text))]
                    ELSE [raised |-> TRUE, doc |-> Present(<<>>)]
            ELSE [raised |-> FALSE,
                  doc |-> Present(doc.content \o <<"\n", "\n">> \o wrapped)]
       ELSE [raised |-> FALSE, doc |-> Present(wrapped)]

\* The document update_readme_table leaves, and whether it raised before
\* opening the document for writing.
update_readme_table(section, doc) ==
    LET wrapped == wrapped_section(section)
    IN IF doc.exists
       THEN IF Contains(doc.content, start_marker) /\ Contains(doc.content, end_marker)
            THEN LET t == expand_template(wrapped)
                 IN IF t.ok
                    THEN [raised |-> FALSE,
                          doc |-> Present(re_sub(doc.content, 1, t.text))]
                    ELSE [raised |-> TRUE, doc |-> doc]
            ELSE [raised |-> FALSE,
                  doc |-> Present(doc.content \o <<"\n", "\n">> \o wrapped)]
       ELSE [raised |-> FALSE, doc |-> Present(wrapped)]

(***************************************************************************)
(* The patcher on its own: a document and a section, then repeated calls.  *)
(***************************************************************************)
MaxDocPieces == 3
MaxSectionPieces == 2
MaxCalls == 2

DocPieces == {start_marker, end_marker, <<"a">>}
SectionPieces == {start_marker, end_marker, <<"x">>, <<"\\", "n">>, <<"\\", "d">>}

Documents == {Absent} \cup {Present(Concat(ps)) : ps \in SeqsUpTo(DocPieces, MaxDocPieces)}
Sections == {Concat(ps) : ps \in SeqsUpTo(SectionPieces, MaxSectionPieces)}

InitPatch ==
    /\ pc = "call"
    /\ IdleTable /\ IdleJson /\ IdleDf /\ IdleFind /\ IdleMain
    /\ readme \in Documents
    /\ readme0 = readme
    /\ new_section \in Sections
    /\ ncalls = 0
    /\ after_first = readme
    /\ raised = FALSE

CallUpdateReadme ==
    /\ pc \in {"call", "return"}
    /\ ncalls < MaxCalls
    /\ ~raised
    /\ LET r == update_readme_table(new_section, readme)
       IN /\ readme' = r.doc
          /\ raised' = r.raised
          /\ after_first' = IF ncalls = 0 THEN r.doc ELSE after_first
    /\ ncalls' = ncalls + 1
    /\ pc' = "return"
    /\ UNCHANGED <<readme0, new_section, notPatch>>

NextPatch == CallUpdateReadme

SpecPatch == InitPatch /\ [][NextPatch]_vars

\* C1: on an existing document holding both markers, one call leaves the
\* original with a region from a start marker through an end marker
\* replaced by the wrapped section, everything before and after unchanged.
C1_RegionReplaced ==
    (/\ ncalls = 1
     /\ readme0.exists
     /\ Contains(readme0.content, start_marker)
     /\ Contains(readme0.content, end_marker))
    => /\ ~raised
       /\ \E i \in 1..Len(readme0.content), j \in 1..Len(readme0.content) :
            /\ IsAt(readme0.content, i, start_marker)
            /\ IsAt(readme0.content, j, end_marker)
            /\ j >= i + Len(start_marker)
            /\ readme.content =
                 SubSeq(readme0.content, 1, i - 1)
                 \o wrapped_section(new_section)
                 \o SubSeq(readme0.content, j + Len(end_marker), Len(readme0.content))

\* C2: calling update_readme_table twice with the same section leaves the
\* document the first call left.
C2_Idempotent ==
    ncalls = 2 => (~raised /\ readme = after_first)

(***************************************************************************)
(* Table renderers                                                         *)
(***************************************************************************)
Range(f) == {f[i] : i \in DOMAIN f}

Whitespace == {" ", "\n", "\t"}

\* cell.strip() is the empty string
IsBlank(cell) == \A i \in 1..Len(cell) : cell[i] \in Whitespace

\* sep.join(items), items being texts
RECURSIVE Join(_, _)
Join(items, sep) ==
    IF items = <<>> THEN <<>>
    ELSE IF Len(items) = 1 THEN items[1]
    ELSE items[1] \o sep \o Join(Tail(items), sep)

\* [f(x) for x in xs if keep], for index sets: the kept indexes in order
RECURSIVE Pick(_, _, _)
Pick(xs, keep, i) ==
    IF i > Len(xs) THEN <<>>
    ELSE (IF i \in keep THEN <<xs[i]>> ELSE <<>>) \o Pick(xs, keep, i + 1)

TableOpen == "<table style='border-collapse: collapse;'>"
ThOpen == "<th style='border: 1px solid #ddd; padding:4px;'>"
TdOpen == "<td style='border: 1px solid #ddd; padding:4px;'>"

HtmlCells(cells, open, close) ==
    Concat([i \in 1..Len(cells) |-> <<open>> \o cells[i] \o <<close>>])

generate_html_table(hs, rs) ==
    IF rs = <<>> THEN <<>>
    ELSE LET non_empty_cols ==
                 {c \in 1..Len(hs) : \E r \in 1..Len(rs) : ~IsBlank(rs[r][c])}
             new_headers == Pick(hs, non_empty_cols, 1)
             new_rows == [r \in 1..Len(rs) |-> Pick(rs[r], non_empty_cols, 1)]
         IN <<TableOpen>>
            \o <<"<tr>">> \o HtmlCells(new_headers, ThOpen, "</th>") \o <<"</tr>">>
            \o Concat([r \in 1..Len(rs) |->
                   <<"<tr>">> \o HtmlCells(new_rows[r], TdOpen, "</td>") \o <<"</tr>">>])
            \o <<"</table>">>

MdLine(cells) == <<"| ">> \o Join(cells, <<" | ">>) \o <<" |\n">>

generate_markdown_table(hs, rs) ==
    MdLine(hs)
    \o MdLine([i \in 1..Len(hs) |-> <<"---">>])
    \o Concat([r \in 1..Len(rs) |-> MdLine(rs[r])])

(***************************************************************************)
(* The renderers on their own.                                             *)
(***************************************************************************)
MaxCols == 2
MaxRows == 2

HeaderNames == <<"X", "Y", "Z">>
CellValues == {<<>>, <<" ">>, <<"1">>}

InitTable ==
    /\ pc = "call"
    /\ IdlePatch /\ IdleJson /\ IdleDf /\ IdleFind /\ IdleMain
    /\ \E n \in 1..MaxCols :
         /\ headers = [c \in 1..n |-> <<HeaderNames[c]>>]
         /\ rows \in SeqsUpTo([1..n -> CellValues], MaxRows)
    /\ html_out = <<>>
    /\ md_out = <<>>

RenderHtml ==
    /\ pc = "call"
    /\ html_out' = generate_html_table(headers, rows)
    /\ pc' = "html"
    /\ UNCHANGED <<headers, rows, md_out, notTable>>

RenderMarkdown ==
    /\ pc = "html"
    /\ md_out' = generate_markdown_table(headers, rows)
    /\ pc' = "return"
    /\ UNCHANGED <<headers, rows, html_out, notTable>>

NextTable == RenderHtml \/ RenderMarkdown

SpecTable == InitTable /\ [][NextTable]_vars

\* the columns in which at least one row has a non-blank cell
KeptCols == {c \in 1..Len(headers) : \E r \in 1..Len(rows) : ~IsBlank(rows[r][c])}

CountOf(text, x) == Cardinality({i \in 1..Len(text) : text[i] = x})

\* C6: both renderers keep a column exactly when some row has a non-blank
\* cell in it, and the markdown separator row has one dash cell per
\* remaining header.
C6_SameColumnFilter ==
    pc = "return" =>
        /\ \A c \in 1..Len(headers) :
             /\ (rows /= <<>> => (headers[c][1] \in Range(html_out) <=> c \in KeptCols))
             /\ (headers[c][1] \in Range(md_out) <=> c \in KeptCols)
        /\ CountOf(md_out, "---") = Cardinality(KeptCols)

(***************************************************************************)
(* Tolerant JSON cleaning (retry path of parse_json_file)                  *)
(***************************************************************************)
Quote == "\""
Backslash == "\\"

\* "(?:\\.|[^"\\])*" tried just after an opening quote: the index of the
\* closing quote, 0 when the literal is not terminated.
RECURSIVE StringEnd(_, _)
StringEnd(text, k) ==
    IF k > Len(text) THEN 0
    ELSE IF text[k] = Quote THEN k
    ELSE IF text[k] = Backslash
    THEN (IF k + 1 > Len(text) THEN 0 ELSE StringEnd(text, k + 2))
    ELSE StringEnd(text, k + 1)

\* (/\*.*?\*/|//.*?$) with MULTILINE and DOTALL tried at i: the index of
\* the last character of the match, 0 when there is none.
CommentEnd(text, i) ==
    IF IsAt(text, i, <<"/", "*">>)
    THEN LET j == FindFrom(text, i + 2, <<"*", "/">>)
         IN IF j = 0 THEN 0 ELSE j + 1
    ELSE IF IsAt(text, i, <<"/", "/">>)
    THEN LET j == FindFrom(text, i + 2, <<"\n">>)
         IN IF j = 0 THEN Len(text) ELSE j - 1
    ELSE 0

RECURSIVE sub_comments(_, _)
sub_comments(text, i) ==
    IF i > Len(text) THEN <<>>
    ELSE LET se == IF text[i] = Quote THEN StringEnd(text, i + 1) ELSE 0
             ce == CommentEnd(text, i)
         IN IF se /= 0 THEN SubSeq(text, i, se) \o sub_comments(text, se + 1)
            ELSE IF ce /= 0 THEN sub_comments(text, ce + 1)
            ELSE <<text[i]>> \o sub_comments(text, i + 1)

remove_json_comments(text) == sub_comments(text, 1)

\* first index at or after k that holds no whitespace (Len + 1 when none)
RECURSIVE SkipSpace(_, _)
SkipSpace(text, k) ==
    IF k <= Len(text) /\ text[k] \in Whitespace THEN SkipSpace(text, k + 1) ELSE k

\* re.sub(r',\s*([}\]])', r'\1', text)
RECURSIVE sub_commas(_, _)
sub_commas(text, i) ==
    IF i > Len(text) THEN <<>>
    ELSE LET k == SkipSpace(text, i + 1)
         IN IF text[i] = "," /\ k <= Len(text) /\ text[k] \in {"}", "]"}
            THEN <<text[k]>> \o sub_commas(text, k + 1)
            ELSE <<text[i]>> \o sub_commas(text, i + 1)

remove_trailing_commas(text) == sub_commas(text, 1)

\* lines 78-79 of parse_json_file
clean_json(text) == remove_trailing_commas(remove_json_comments(text))

(***************************************************************************)
(* The cleaning on its own.                                                *)
(***************************************************************************)
MaxJsonLen == 4

JsonChars == {Quote, Backslash, "/", "*", ",", "}", "\n", "a"}

InitJson ==
    /\ pc = "call"
    /\ IdlePatch /\ IdleTable /\ IdleDf /\ IdleFind /\ IdleMain
    /\ json_text \in SeqsUpTo(JsonChars, MaxJsonLen)
    /\ cleaned = <<>>

CleanJson ==
    /\ pc = "call"
    /\ cleaned' = clean_json(json_text)
    /\ pc' = "return"
    /\ UNCHANGED <<json_text, notJson>>

NextJson == CleanJson

SpecJson == InitJson /\ [][NextJson]_vars

\* The string literals of a JSON text with comments, read left to right.
RECURSIVE Literals(_, _)
Literals(text, i) ==
    IF i > Len(text) THEN {}
    ELSE LET se == IF text[i] = Quote THEN StringEnd(text, i + 1) ELSE 0
             ce == CommentEnd(text, i)
         IN IF se /= 0 THEN {SubSeq(text, i, se)} \cup Literals(text, se + 1)
            ELSE IF ce /= 0 THEN Literals(text, ce + 1)
            ELSE Literals(text, i + 1)

\* C7: every string literal of the text read is in the cleaned text,
\* character for character.
C7_LiteralsPreserved ==
    pc = "return" => \A lit \in Literals(json_text, 1) : Contains(cleaned, lit)

(***************************************************************************)
(* parse_dockerfile.  A line is the sequence of its whitespace-separated   *)
(* tokens (line.split()), a token a sequence of characters.                *)
(***************************************************************************)
UpperChar(c) ==
    CASE c = "f" -> "F" [] c = "r" -> "R" [] c = "o" -> "O" [] c = "m" -> "M"
      [] c = "e" -> "E" [] c = "x" -> "X" [] c = "p" -> "P" [] c = "s" -> "S"
      [] OTHER -> c

Upper(tok) == [i \in 1..Len(tok) |-> UpperChar(tok[i])]

\* line.upper().startswith(keyword), line stripped
LineStartsWith(line, keyword) ==
    /\ line /= <<>>
    /\ IsAt(Upper(line[1]), 1, keyword)

KwFrom == <<"F", "R", "O", "M">>
KwExpose == <<"E", "X", "P", "O", "S", "E">>

\* the loop body of lines 279-287 from line i on
RECURSIVE parse_lines(_, _, _, _)
parse_lines(lines, i, base_image, exposed_ports) ==
    IF i > Len(lines) THEN [base_image |-> base_image, ports |-> exposed_ports]
    ELSE LET line == lines[i]
         IN IF LineStartsWith(line, KwFrom)
            THEN parse_lines(lines, i + 1,
                             IF Len(line) >= 2 THEN line[2] ELSE base_image,
                             exposed_ports)
            ELSE IF LineStartsWith(line, KwExpose)
            THEN parse_lines(lines, i + 1, base_image, exposed_ports \o Tail(line))
            ELSE parse_lines(lines, i + 1, base_image, exposed_ports)

parse_dockerfile(file) ==
    LET r == IF file.readable THEN parse_lines(file.lines, 1, <<>>, <<>>)
             ELSE [base_image |-> <<>>, ports |-> <<>>]
    IN [base_image |-> r.base_image, exposed_ports |-> Join(r.ports, <<",", " ">>)]

(***************************************************************************)
(* parse_dockerfile on its own.                                            *)
(***************************************************************************)
MaxDfLines == 2
MaxLineTokens == 2

DfTokens == {KwFrom, <<"f", "r", "o", "m">>, KwExpose, <<"a">>, <<"b">>}
DfLines == SeqsUpTo(DfTokens, MaxLineTokens)
Unreadable == [readable |-> FALSE, lines |-> <<>>]
Readable(lines) == [readable |-> TRUE, lines |-> lines]

InitDockerfile ==
    /\ pc = "call"
    /\ IdlePatch /\ IdleTable /\ IdleJson /\ IdleFind /\ IdleMain
    /\ df_file \in {Unreadable} \cup {Readable(ls) : ls \in SeqsUpTo(DfLines, MaxDfLines)}
    /\ df_info = [base_image |-> <<>>, exposed_ports |-> <<>>]

ParseDockerfile ==
    /\ pc = "call"
    /\ df_info' = parse_dockerfile(df_file)
    /\ pc' = "return"
    /\ UNCHANGED <<df_file, notDf>>

NextDockerfile == ParseDockerfile

SpecDockerfile == InitDockerfile /\ [][NextDockerfile]_vars

\* the lines whose keyword is FROM, in any case
FromLines == {i \in 1..Len(df_file.lines) :
                 df_file.lines[i] /= <<>> /\ Upper(df_file.lines[i][1]) = KwFrom}

\* C9: the base image is the second token of the first FROM line.
C9_FirstFromWins ==
    (pc = "return" /\ FromLines /= {} /\ Len(df_file.lines[Min(FromLines)]) >= 2)
    => df_info.base_image = df_file.lines[Min(FromLines)][2]

(***************************************************************************)
(* Path discovery.  A path is the sequence of its components below the     *)
(* scanned root; an ignore file is the set of its patterns, each a bare    *)
(* name (a gitwildmatch pattern without slash or wildcard, which covers a  *)
(* path when one of the path's components has that name).                  *)
(***************************************************************************)
MaxDepth == 2

DirChain == <<"a", "b", "c">>
Root == <<>>
Dirs == {SubSeq(DirChain, 1, k) : k \in 0..MaxDepth}

\* the order in which os.walk lists the files of one directory
FileOrder == <<"Dockerfile", "Dockerfile.dev", "devcontainer.json", "launch.json", "tasks.json">>

Last(path) == path[Len(path)]

\* PathSpec.match_file(path) for a set of bare-name patterns
match_file(spec, path) == \E i \in 1..Len(path) : path[i] \in spec

\* re.fullmatch of the literal patterns main uses (r"Dockerfile",
\* r"tasks\.json", ...), each named here by the one name it matches
fullmatch(regex, name) == name = regex

\* what walk_with_gitignore yields from directory root on, topdown:
\* a sequence of [root, files]
RECURSIVE walk_with_gitignore(_, _, _)
walk_with_gitignore(tree, root, global_spec) ==
    IF root /= Root /\ match_file(global_spec, root)
    THEN <<>>
    ELSE LET local_spec == tree.ignore[root]
             files == Pick(FileOrder,
                           {i \in 1..Len(FileOrder) :
                               /\ root \o <<FileOrder[i]>> \in tree.files
                               /\ ~match_file(local_spec, <<FileOrder[i]>>)}, 1)
             child == SubSeq(DirChain, 1, Len(root) + 1)
             descend == /\ Len(root) < Len(DirChain)
                        /\ child \in DOMAIN tree.ignore
                        /\ ~match_file(local_spec, <<Last(child)>>)
         IN <<[root |-> root, files |-> files]>>
            \o (IF descend THEN walk_with_gitignore(tree, child, global_spec) ELSE <<>>)

find_files(tree, regex, global_spec) ==
    LET walked == walk_with_gitignore(tree, Root, global_spec)
    IN Concat([w \in 1..Len(walked) |->
          LET fl == walked[w].files
          IN Concat([i \in 1..Len(fl) |->
                IF fullmatch(regex, fl[i]) THEN <<walked[w].root \o <<fl[i]>>>> ELSE <<>>])])

\* load_global_gitignore: the patterns of the root's ignore file
load_global_gitignore(tree) == tree.ignore[Root]

(***************************************************************************)
(* find_files on its own.                                                  *)
(***************************************************************************)
FindFileNames == {"Dockerfile", "Dockerfile.dev"}
IgnoreNames == {"Dockerfile", "b"}

Trees(names) ==
    [files : SUBSET {d \o <<n>> : d \in Dirs, n \in names},
     ignore : [Dirs -> SUBSET IgnoreNames]]

InitFind ==
    /\ pc = "call"
    /\ IdlePatch /\ IdleTable /\ IdleJson /\ IdleDf /\ IdleMain
    /\ fs \in Trees(FindFileNames)
    /\ filename_regex = "Dockerfile"
    /\ matches = <<>>

FindFiles ==
    /\ pc = "call"
    /\ matches' = find_files(fs, filename_regex, load_global_gitignore(fs))
    /\ pc' = "return"
    /\ UNCHANGED <<fs, filename_regex, notFind>>

NextFind == FindFiles

SpecFind == InitFind /\ [][NextFind]_vars

\* a path is covered by the ignore file of the root or of a directory on
\* the way down to it, when a component below that directory is named there
Covered(tree, path) ==
    \E k \in 0..(Len(path) - 1) :
        match_file(tree.ignore[SubSeq(path, 1, k)], SubSeq(path, k + 1, Len(path)))

\* C5: find_files returns exactly the files with a fully matching name that
\* no ignore file from the root down covers.
C5_ExactlyUncovered ==
    pc = "return" =>
        Range(matches) = {f \in fs.files :
                             fullmatch(filename_regex, Last(f)) /\ ~Covered(fs, f)}

(***************************************************************************)
(* Parsed JSON / YAML values: null, int, str, list, dict.  A dict keeps    *)
(* its keys in insertion order.  The text of a str is a sequence of        *)
(* chunks in which the substitution opener, the closing brace, the slash,  *)
(* the colon, the equals sign and the backslash stand alone.               *)
(***************************************************************************)
VNull == [t |-> "null"]
VInt(n) == [t |-> "int", n |-> n]
VStr(text) == [t |-> "str", text |-> text]
VList(items) == [t |-> "list", items |-> items]
VDict(keys, val) == [t |-> "dict", keys |-> keys, val |-> val]
EmptyDict == VDict(<<>>, <<>>)

IsDict(v) == v.t = "dict"
IsList(v) == v.t = "list"
IsStr(v) == v.t = "str"

\* bool(v)
Truthy(v) ==
    CASE v.t = "null" -> FALSE
      [] v.t = "int" -> v.n /= 0
      [] v.t = "str" -> v.text /= <<>>
      [] v.t = "list" -> v.items /= <<>>
      [] v.t = "dict" -> v.keys /= <<>>

HasKey(d, k) == k \in Range(d.keys)

\* d.get(k, default)
Get(d, k, default) == IF HasKey(d, k) THEN d.val[k] ELSE default

\* the str value's text, for the keys the extractors render
TextOf(v) == IF IsStr(v) THEN v.text ELSE <<>>

\* text.strip()
RECURSIVE Strip(_)
Strip(text) ==
    IF text = <<>> THEN <<>>
    ELSE IF Head(text) \in Whitespace THEN Strip(Tail(text))
    ELSE IF Last(text) \in Whitespace THEN Strip(SubSeq(text, 1, Len(text) - 1))
    ELSE text

\* re.findall(r"\$\{input:([^}]+)\}", text)
InputRefs(text) ==
    {text[i + 1] : i \in {j \in 1..(Len(text) - 2) :
                             /\ text[j] = "${input:"
                             /\ text[j + 1] /= "}"
                             /\ text[j + 2] = "}"}}

RECURSIVE extract_all_input_ids(_)
extract_all_input_ids(obj) ==
    CASE obj.t = "dict" ->
           UNION {extract_all_input_ids(obj.val[k]) : k \in Range(obj.keys)}
      [] obj.t = "list" ->
           UNION {extract_all_input_ids(obj.items[i]) : i \in 1..Len(obj.items)}
      [] obj.t = "str" -> InputRefs(obj.text)
      [] OTHER -> {}

\* sorted(input_ids), over the identifiers of the model
IdOrder == <<"i1", "i2">>
SortedIds(ids) == Pick(IdOrder, {i \in 1..Len(IdOrder) : IdOrder[i] \in ids}, 1)

\* {inp.get("id"): inp for inp in inputs_list if "id" in inp}: the
\* definition of an identifier is the last entry that declares it
input_definitions_of(inputs_list) ==
    LET declaring(id) == {i \in 1..Len(inputs_list.items) :
                             /\ HasKey(inputs_list.items[i], "id")
                             /\ TextOf(inputs_list.items[i].val["id"]) = <<id>>}
        ids == {id \in Range(IdOrder) : declaring(id) /= {}}
    IN [id \in ids |->
           inputs_list.items[CHOOSE i \in declaring(id) : \A j \in declaring(id) : j <= i]]

\* format_inputs_table, for definitions that declare no "options"
format_inputs_table(input_ids, input_definitions) ==
    LET ids == SortedIds(input_ids)
        rws == [i \in 1..Len(ids) |->
                  IF ids[i] \in DOMAIN input_definitions
                  THEN <<<<ids[i]>>,
                         Strip(TextOf(Get(input_definitions[ids[i]], "description", VStr(<<>>)))),
                         <<>>>>
                  ELSE <<<<ids[i]>>, <<>>, <<>>>>]
    IN IF rws /= <<>>
       THEN generate_html_table(<<<<"Name">>, <<"Description">>, <<"Options">>>>, rws)
       ELSE <<>>

\* the grave accent that quotes a command (the character itself cannot be
\* written in a string of this language)
Backtick == "<grave>"

\* os.path.basename
basename(text) ==
    LET S == {i \in 1..Len(text) : text[i] = "/"}
    IN IF S = {} THEN text
       ELSE SubSeq(text, (CHOOSE i \in S : \A j \in S : j <= i) + 1, Len(text))

\* the values a for loop draws from v; ok is FALSE when v is not iterable
\* or yields something else than the dicts the loop body calls .get on
DictItems(v) ==
    IF IsList(v)
    THEN [ok |-> \A i \in 1..Len(v.items) : IsDict(v.items[i]), items |-> v.items]
    ELSE IF IsDict(v)
    THEN [ok |-> v.keys = <<>>, items |-> <<>>]
    ELSE [ok |-> IsStr(v) /\ v.text = <<>>, items |-> <<>>]

\* A file as the tolerant parsers see it.
Missing == [kind |-> "missing", data |-> VNull]
Garbage == [kind |-> "garbage", data |-> VNull]
Parsed(v) == [kind |-> "parsed", data |-> v]

\* parse_json_file / parse_yaml_file: the parsed value, None when the file
\* cannot be read or parsed (the error is printed, not raised)
parse_json_file(file) == IF file.kind = "parsed" THEN file.data ELSE VNull
parse_yaml_file(file) == IF file.kind = "parsed" THEN file.data ELSE VNull

\* Extractors return [ok, info]; ok is FALSE when the call raises.
parse_vscode_tasks(file) ==
    LET data == parse_json_file(file)
        input_definitions ==
            IF IsDict(data)
            THEN input_definitions_of(Get(data, "inputs", VList(<<>>)))
            ELSE <<>>
        tasks == IF IsDict(data) THEN Get(data, "tasks", VList(<<>>)) ELSE data
        its == DictItems(tasks)
        info(task) ==
            LET command == TextOf(Get(task, "command", VStr(<<>>)))
                input_ids == extract_all_input_ids(task)
            IN [label |-> TextOf(Get(task, "label", VStr(<<>>))),
                detail |-> TextOf(Get(task, "detail", VStr(<<>>))),
                command |-> IF command /= <<>>
                            THEN <<Backtick>> \o basename(command) \o <<Backtick>>
                            ELSE <<>>,
                inputs |-> IF input_ids /= {}
                           THEN format_inputs_table(input_ids, input_definitions)
                           ELSE <<>>]
    IN IF ~Truthy(data) THEN [ok |-> TRUE, info |-> <<>>]
       ELSE IF ~its.ok THEN [ok |-> FALSE, info |-> <<>>]
       ELSE [ok |-> TRUE, info |-> [i \in 1..Len(its.items) |-> info(its.items[i])]]

parse_vscode_launch(file) ==
    LET data == parse_json_file(file)
        input_definitions ==
            IF IsDict(data) /\ HasKey(data, "inputs")
            THEN input_definitions_of(Get(data, "inputs", VList(<<>>)))
            ELSE <<>>
        configurations ==
            IF IsDict(data) THEN Get(data, "configurations", VList(<<>>)) ELSE data
        its == DictItems(configurations)
        info(config) ==
            LET input_ids == extract_all_input_ids(config)
            IN [name |-> TextOf(Get(config, "name", VStr(<<>>))),
                type |-> TextOf(Get(config, "type", VStr(<<>>))),
                inputs |-> IF input_ids /= {}
                           THEN format_inputs_table(input_ids, input_definitions)
                           ELSE <<>>]
    IN IF ~Truthy(data) THEN [ok |-> TRUE, info |-> <<>>]
       ELSE IF ~its.ok THEN [ok |-> FALSE, info |-> <<>>]
       ELSE [ok |-> TRUE, info |-> [i \in 1..Len(its.items) |-> info(its.items[i])]]

\* list(dict.fromkeys(xs))
RECURSIVE Dedup(_)
Dedup(xs) ==
    IF xs = <<>> THEN <<>>
    ELSE LET front == Dedup(SubSeq(xs, 1, Len(xs) - 1))
         IN IF Last(xs) \in Range(front) THEN front ELSE front \o <<Last(xs)>>

format_devcontainer_extensions(extensions_list) ==
    LET exts == [i \in 1..Len(extensions_list) |-> Strip(extensions_list[i])]
        kept == Pick(exts, {i \in 1..Len(exts) : exts[i] /= <<>>}, 1)
        link(ext) ==
            <<"<a href=\"https://marketplace.visualstudio.com/items?itemName=">>
            \o ext \o <<"\" target=\"_blank\">">> \o ext \o <<"</a>">>
    IN IF extensions_list = <<>> THEN <<>>
       ELSE generate_html_table(<<<<"Name">>, <<"Store Link">>>>,
                                [i \in 1..Len(kept) |-> <<kept[i], link(kept[i])>>])

\* info is the empty sequence for the empty dict, else one record
parse_devcontainer(file, file_path) ==
    LET data == parse_json_file(file)
        customizations == Get(data, "customizations", EmptyDict)
        vscode_custom == Get(customizations, "vscode", EmptyDict)
        bound == IsDict(customizations) /\ IsDict(vscode_custom)
        extensions == Get(vscode_custom, "extensions", VList(<<>>))
        texts == [i \in 1..Len(extensions.items) |-> TextOf(extensions.items[i])]
    IN IF ~Truthy(data) THEN [ok |-> TRUE, info |-> <<>>]
       ELSE IF ~IsDict(data) \/ ~bound \/ ~IsList(extensions)
       THEN [ok |-> FALSE, info |-> <<>>]
       ELSE [ok |-> TRUE,
             info |-> <<[extensions |-> format_devcontainer_extensions(Dedup(texts)),
                         file |-> file_path]>>]

\* text.split(sep) for a one-chunk separator
RECURSIVE Split(_, _)
Split(text, sep) ==
    LET S == {i \in 1..Len(text) : text[i] = sep}
    IN IF S = {} THEN <<text>>
       ELSE <<SubSeq(text, 1, Min(S) - 1)>> \o Split(SubSeq(text, Min(S) + 1, Len(text)), sep)

format_host(host) == IF host = <<".">> THEN <<"(Project directory)">> ELSE host

format_volumes_table(volumes_list) ==
    LET rws == [i \in 1..Len(volumes_list) |->
                  LET parts == Split(volumes_list[i], ":")
                  IN <<format_host(parts[1]),
                       IF Len(parts) > 1 THEN parts[2] ELSE <<>>,
                       IF Len(parts) > 2 THEN parts[3] ELSE <<>>>>]
    IN IF rws /= <<>>
       THEN generate_html_table(<<<<"Host">>, <<"Container">>, <<"Mode">>>>, rws)
       ELSE <<>>

\* sorted(env_filtered.keys()), over the variable names of the model
EnvOrder == <<<<"A">>, <<"B">>>>

\* env_filtered is the set of the names kept
format_env_table(env_filtered) ==
    LET keys == Pick(EnvOrder, {i \in 1..Len(EnvOrder) : EnvOrder[i] \in env_filtered}, 1)
        rws == [i \in 1..Len(keys) |-> <<<<Backtick, "$">> \o keys[i] \o <<Backtick>>>>]
    IN IF rws /= <<>> THEN generate_html_table(<<<<"Host ENV variable">>>>, rws) ELSE <<>>

\* the names of the environment whose value is a str holding "${";
\* environment is a dict, or a list of KEY=VALUE strs of which the last
\* entry for a name counts
env_filtered_of(env_vars) ==
    IF IsList(env_vars)
    THEN LET items == [i \in 1..Len(env_vars.items) |-> TextOf(env_vars.items[i])]
             withEq == {i \in 1..Len(items) : "=" \in Range(items[i])}
             key(i) == Split(items[i], "=")[1]
             lastFor(i) == \A j \in withEq : key(j) = key(i) => j <= i
             val(i) == SubSeq(items[i], Len(key(i)) + 2, Len(items[i]))
         IN {key(i) : i \in {j \in withEq : lastFor(j) /\ "${" \in Range(val(j))}}
    ELSE {<<k>> : k \in {x \in Range(env_vars.keys) :
                            IsStr(env_vars.val[x]) /\ "${" \in Range(env_vars.val[x].text)}}

\* "services" not in data raises for a value that is no container
HasServices(data) ==
    CASE IsDict(data) -> [ok |-> TRUE, has |-> HasKey(data, "services")]
      [] IsStr(data) -> [ok |-> TRUE, has |-> "services" \in Range(data.text)]
      [] IsList(data) -> [ok |-> TRUE, has |-> FALSE]
      [] OTHER -> [ok |-> FALSE, has |-> FALSE]

\* the service dicts of data["services"].items(), ok FALSE when that raises
ServicesOf(data) ==
    IF IsDict(data) /\ IsDict(data.val["services"])
       /\ \A k \in Range(data.val["services"].keys) : IsDict(data.val["services"].val[k])
    THEN [ok |-> TRUE, dict |-> data.val["services"]]
    ELSE [ok |-> FALSE, dict |-> EmptyDict]

parse_docker_compose(file) ==
    LET data == parse_yaml_file(file)
        hs == HasServices(data)
        svs == ServicesOf(data)
        info(service_name) ==
            LET service == svs.dict.val[service_name]
                ports == Get(service, "ports", VList(<<>>))
                svc_volumes == Get(service, "volumes", VList(<<>>))
            IN [service |-> <<service_name>>,
                image |-> TextOf(Get(service, "image", VStr(<<"(custom)">>))),
                ports |-> Join([i \in 1..Len(ports.items) |-> TextOf(ports.items[i])],
                               <<",", " ">>),
                volumes |-> format_volumes_table(
                               [i \in 1..Len(svc_volumes.items) |->
                                   TextOf(svc_volumes.items[i])]),
                environment |-> format_env_table(
                                   env_filtered_of(Get(service, "environment", EmptyDict))),
                build |-> Get(service, "build", VNull)]
    IN IF ~Truthy(data) THEN [ok |-> TRUE, services |-> <<>>]
       ELSE IF ~hs.ok THEN [ok |-> FALSE, services |-> <<>>]
       ELSE IF ~hs.has THEN [ok |-> TRUE, services |-> <<>>]
       ELSE IF ~svs.ok THEN [ok |-> FALSE, services |-> <<>>]
       ELSE [ok |-> TRUE,
             services |-> [i \in 1..Len(svs.dict.keys) |-> info(svs.dict.keys[i])]]

\* lines 370-377: the build files the compose services name, as paths
\* below the working directory
additional_dockerfiles_of(file) ==
    LET data == parse_yaml_file(file)
        svs == ServicesOf(data)
        named == {k \in Range(svs.dict.keys) :
                     LET build_prop == Get(svs.dict.val[k], "build", VNull)
                     IN IsDict(build_prop) /\ HasKey(build_prop, "dockerfile")}
        path(k) == LET parts == Split(TextOf(svs.dict.val[k].val["build"].val["dockerfile"]), "/")
                   IN [i \in 1..Len(parts) |-> parts[i][1]]
    IN IF Truthy(data) /\ HasServices(data).ok /\ HasServices(data).has /\ svs.ok
       THEN {path(k) : k \in named}
       ELSE {}

\* os.path.relpath(file, base_dir) as text
PathText(path) == Join([i \in 1..Len(path) |-> <<path[i]>>], <<"/">>)

MaxRuns == 2

(***************************************************************************)
(* main().  The scanned root is the working directory (base_dir is "."),   *)
(* so docker-compose.yml and README.md are those of the scanned root.      *)
(***************************************************************************)
JsonFile(path) == IF path \in DOMAIN project.json THEN project.json[path] ELSE Missing
BuildFile(path) == IF path \in DOMAIN project.build THEN project.build[path] ELSE Unreadable

\* list(a_set): the order of a set of strs is that of their hashes, which
\* differs from one interpreter process to the next
ListsOf(S) == {l \in [1..Cardinality(S) -> S] : \A i, j \in DOMAIN l : i /= j => l[i] /= l[j]}

\* data.extend(parse(file)) for file in files: [ok, info]
ExtendAll(results) ==
    [ok |-> \A i \in 1..Len(results) : results[i].ok,
     info |-> Concat([i \in 1..Len(results) |-> results[i].info])]

Section(title, hs, rws) ==
    <<title>> \o generate_markdown_table(hs, rws) \o <<"\n\n">>

\* lines 404-473
render_md(compose, tasks, launch, devcontainers, dockerfile_records, unified) ==
    (IF DOMAIN compose /= {}
     THEN Section("## Docker Compose Configurations\n",
                  <<<<"Service">>, <<"Image">>, <<"Ports">>, <<"Volumes">>,
                    <<"Injected ENV variables">>>>,
                  [i \in 1..Len(compose.services) |->
                      <<compose.services[i].service, compose.services[i].image,
                        compose.services[i].ports, compose.services[i].volumes,
                        compose.services[i].environment>>])
     ELSE <<>>)
    \o (IF tasks /= <<>>
        THEN Section("## VS Code Tasks\n",
                     <<<<"Name">>, <<"Description">>, <<"Command">>, <<"Inputs">>>>,
                     [i \in 1..Len(tasks) |->
                         <<tasks[i].label, tasks[i].detail, tasks[i].command, tasks[i].inputs>>])
        ELSE <<>>)
    \o (IF launch /= <<>>
        THEN Section("## VS Code Launch Configurations\n",
                     <<<<"Name">>, <<"Type">>, <<"Inputs">>>>,
                     [i \in 1..Len(launch) |->
                         <<launch[i].name, launch[i].type, launch[i].inputs>>])
        ELSE <<>>)
    \o (IF devcontainers /= <<>>
        THEN Section("## Devcontainer Configurations\n",
                     <<<<"Extensions">>>>,
                     [i \in 1..Len(devcontainers) |-> <<devcontainers[i].extensions>>])
        ELSE <<>>)
    \o (IF dockerfile_records /= <<>>
        THEN Section("## Dockerfiles\n",
                     <<<<"File">>, <<"Base Image">>, <<"Exposed Ports">>>>,
                     [i \in 1..Len(dockerfile_records) |->
                         <<dockerfile_records[i].file, dockerfile_records[i].base_image,
                           dockerfile_records[i].exposed_ports>>])
        ELSE <<>>)
    \o (IF unified
        THEN Section("## Unified Configuration Summary\n",
                     <<<<"Config Type">>, <<"Details">>>>,
                     <<<<<<"VS Code Tasks">>, <<ToString(Len(tasks)), " tasks found">>>>,
                       <<<<"VS Code Launch">>,
                         <<ToString(Len(launch)), " launch configurations found">>>>,
                       <<<<"Devcontainer">>,
                         <<ToString(Len(devcontainers)), " devcontainer configs found">>>>,
                       <<<<"Dockerfiles">>,
                         <<ToString(Len(dockerfile_records)), " Dockerfiles found">>>>,
                       <<<<"Docker Compose">>,
                         <<ToString(Cardinality(DOMAIN compose)),
                           " docker-compose files found">>>>>>)
        ELSE <<>>)

Fail(step) ==
    /\ pc' = "failed"
    /\ failed_at' = step
    /\ UNCHANGED <<readme, readme0, fs, project, run, doc1, localVars, notMain>>

\* lines 366-377
MainCompose ==
    /\ pc = "compose"
    /\ LET r == parse_docker_compose(project.compose)
       IN IF r.ok
          THEN /\ compose_data' = [services |-> r.services, file |-> <<"docker-compose.yml">>]
               /\ additional_dockerfiles' = additional_dockerfiles_of(project.compose)
               /\ pc' = "find"
               /\ UNCHANGED <<readme, readme0, fs, project, run, doc1, failed_at,
                              dockerfiles, found, tasks_data, launch_data,
                              devcontainer_data, dockerfile_data, md_content, notMain>>
          ELSE Fail("compose")

\* lines 364, 379-385
MainFind ==
    /\ pc = "find"
    /\ LET global_spec == load_global_gitignore(fs)
           dockerfile_set == Range(find_files(fs, "Dockerfile", global_spec))
       IN /\ dockerfiles' \in ListsOf(dockerfile_set \cup additional_dockerfiles)
          /\ found' = [tasks |-> find_files(fs, "tasks.json", global_spec),
                       launch |-> find_files(fs, "launch.json", global_spec),
                       devcontainer |-> find_files(fs, "devcontainer.json", global_spec)]
    /\ pc' = "tasks"
    /\ UNCHANGED <<readme, readme0, fs, project, run, doc1, failed_at, compose_data,
                   additional_dockerfiles, tasks_data, launch_data, devcontainer_data,
                   dockerfile_data, md_content, notMain>>

\* lines 387-389
MainTasks ==
    /\ pc = "tasks"
    /\ LET r == ExtendAll([i \in 1..Len(found.tasks) |->
                              parse_vscode_tasks(JsonFile(found.tasks[i]))])
       IN IF r.ok
          THEN /\ tasks_data' = r.info
               /\ pc' = "launch"
               /\ UNCHANGED <<readme, readme0, fs, project, run, doc1, failed_at,
                              compose_data, additional_dockerfiles, dockerfiles, found,
                              launch_data, devcontainer_data, dockerfile_data,
                              md_content, notMain>>
          ELSE Fail("tasks")

\* lines 390-392
MainLaunch ==
    /\ pc = "launch"
    /\ LET r == ExtendAll([i \in 1..Len(found.launch) |->
                              parse_vscode_launch(JsonFile(found.launch[i]))])
       IN IF r.ok
          THEN /\ launch_data' = r.info
               /\ pc' = "devcontainer"
               /\ UNCHANGED <<readme, readme0, fs, project, run, doc1, failed_at,
                              compose_data, additional_dockerfiles, dockerfiles, found,
                              tasks_data, devcontainer_data, dockerfile_data,
                              md_content, notMain>>
          ELSE Fail("launch")

\* lines 393-397
MainDevcontainer ==
    /\ pc = "devcontainer"
    /\ LET r == ExtendAll([i \in 1..Len(found.devcontainer) |->
                              parse_devcontainer(JsonFile(found.devcontainer[i]),
                                                 PathText(found.devcontainer[i]))])
       IN IF r.ok
          THEN /\ devcontainer_data' = r.info
               /\ pc' = "dockerfiles"
               /\ UNCHANGED <<readme, readme0, fs, project, run, doc1, failed_at,
                              compose_data, additional_dockerfiles, dockerfiles, found,
                              tasks_data, launch_data, dockerfile_data,
                              md_content, notMain>>
          ELSE Fail("devcontainer")

\* lines 398-402
MainDockerfiles ==
    /\ pc = "dockerfiles"
    /\ dockerfile_data' =
         [i \in 1..Len(dockerfiles) |->
             LET df_info_i == parse_dockerfile(BuildFile(dockerfiles[i]))
             IN [base_image |-> df_info_i.base_image,
                 exposed_ports |-> df_info_i.exposed_ports,
                 file |-> PathText(dockerfiles[i])]]
    /\ pc' = "render"
    /\ UNCHANGED <<readme, readme0, fs, project, run, doc1, failed_at, compose_data,
                   additional_dockerfiles, dockerfiles, found, tasks_data, launch_data,
                   devcontainer_data, md_content, notMain>>

\* lines 404-473
MainRender ==
    /\ pc = "render"
    /\ md_content' = render_md(compose_data, tasks_data, launch_data, devcontainer_data,
                               dockerfile_data, project.unified)
    /\ pc' = "patch"
    /\ UNCHANGED <<readme, readme0, fs, project, run, doc1, failed_at, compose_data,
                   additional_dockerfiles, dockerfiles, found, tasks_data, launch_data,
                   devcontainer_data, dockerfile_data, notMain>>

\* line 475
MainPatch ==
    /\ pc = "patch"
    /\ LET r == update_readme_table(md_content, readme)
       IN /\ readme' = r.doc
          /\ pc' = IF r.raised THEN "failed" ELSE "done"
          /\ failed_at' = IF r.raised THEN "patch" ELSE failed_at
    /\ UNCHANGED <<readme0, fs, project, run, doc1, localVars, notMain>>

\* the same command once more, over the same tree and starting document
MainAgain ==
    /\ pc = "done"
    /\ run < MaxRuns
    /\ run' = run + 1
    /\ doc1' = IF run = 1 THEN readme ELSE doc1
    /\ readme' = readme0
    /\ pc' = "compose"
    /\ compose_data' = [services |-> <<>>]
    /\ additional_dockerfiles' = {}
    /\ dockerfiles' = <<>>
    /\ found' = [tasks |-> <<>>, launch |-> <<>>, devcontainer |-> <<>>]
    /\ tasks_data' = <<>>
    /\ launch_data' = <<>>
    /\ devcontainer_data' = <<>>
    /\ dockerfile_data' = <<>>
    /\ md_content' = <<>>
    /\ UNCHANGED <<readme0, fs, project, failed_at, notMain>>

NextMain ==
    \/ MainCompose \/ MainFind \/ MainTasks \/ MainLaunch \/ MainDevcontainer
    \/ MainDockerfiles \/ MainRender \/ MainPatch \/ MainAgain

(***************************************************************************)
(* The projects main() is run on.                                          *)
(***************************************************************************)
Str1(chunk) == VStr(<<chunk>>)

\* {"inputs": [{"id": "i1", "description": " pick "}],
\*  "tasks": [{"label": "C:\d", "command": "/usr/bin/make", "args": ["${input:i1}"]}]}
TasksWithInput ==
    VDict(<<"inputs", "tasks">>,
          [inputs |-> VList(<<VDict(<<"id", "description">>,
                                    [id |-> Str1("i1"),
                                     description |-> VStr(<<" ", "pick", " ">>)])>>),
           tasks |-> VList(<<VDict(<<"label", "command", "args">>,
                                   [label |-> VStr(<<"C", ":", "\\", "d">>),
                                    command |-> VStr(<<"/", "usr", "/", "bin", "/", "make">>),
                                    args |-> VList(<<VStr(<<"${input:", "i1", "}">>)>>)])>>)])

\* {"configurations": [{"name": "dbg", "type": "node"}]}
LaunchOne ==
    VDict(<<"configurations">>,
          [configurations |-> VList(<<VDict(<<"name", "type">>,
                                            [name |-> Str1("dbg"), type |-> Str1("node")])>>)])

\* {"customizations": null}
DevNullCustomizations == VDict(<<"customizations">>, [customizations |-> VNull])

\* {"customizations": {"vscode": {"extensions": ["e1", "e1", "e2"]}}}
DevExtensions ==
    VDict(<<"customizations">>,
          [customizations |->
              VDict(<<"vscode">>,
                    [vscode |-> VDict(<<"extensions">>,
                                      [extensions |->
                                          VList(<<Str1("e1"), Str1("e1"), Str1("e2")>>)])])])

\* services: {web: {image: nginx, ports: ["80:80"], volumes: [".:/app:ro"],
\*                  environment: ["A=1", "B=${VAR}"]}}
ComposeImage ==
    VDict(<<"services">>,
          [services |->
              VDict(<<"web">>,
                    [web |-> VDict(<<"image", "ports", "volumes", "environment">>,
                                   [image |-> Str1("nginx"),
                                    ports |-> VList(<<Str1("80:80")>>),
                                    volumes |-> VList(<<VStr(<<".", ":", "/app", ":", "ro">>)>>),
                                    environment |->
                                        VList(<<VStr(<<"A", "=", "1">>),
                                                VStr(<<"B", "=", "${", "VAR", "}">>)>>)])])])

\* services: {app: {build: {dockerfile: <path>}}}
ComposeBuild(path_text) ==
    VDict(<<"services">>,
          [services |->
              VDict(<<"app">>,
                    [app |-> VDict(<<"build">>,
                                   [build |-> VDict(<<"dockerfile">>,
                                                    [dockerfile |-> VStr(path_text)])])])])

TasksContents == {Garbage, Parsed(Str1("abc")), Parsed(TasksWithInput)}
LaunchContents == {Garbage, Parsed(LaunchOne)}
DevcontainerContents == {Parsed(DevNullCustomizations), Parsed(DevExtensions)}
ComposeContents ==
    {Missing, Garbage, Parsed(VInt(5)), Parsed(ComposeImage),
     Parsed(ComposeBuild(<<"a", "/", "Dockerfile">>)),
     Parsed(ComposeBuild(<<"Dockerfile.dev">>))}

JsonSlots == {<<"tasks.json">>, <<"launch.json">>, <<"a", "devcontainer.json">>}
JsonContents(path) ==
    CASE Last(path) = "tasks.json" -> TasksContents
      [] Last(path) = "launch.json" -> LaunchContents
      [] OTHER -> DevcontainerContents

BuildSlots == {<<"Dockerfile">>, <<"a", "Dockerfile">>}
BuildContents(path) ==
    IF path = <<"Dockerfile">>
    THEN {Readable(<<<<KwFrom, <<"a">>>>, <<KwExpose, <<"8", "0">>>>>>)}
    ELSE {Readable(<<<<KwFrom, <<"b">>>>>>), Unreadable}

\* the functions that give each path of a subset of slots one of its contents
Choices(slots, contents(_)) ==
    UNION {{f \in [S -> UNION {contents(p) : p \in S}] : \A p \in S : f[p] \in contents(p)} :
             S \in SUBSET slots}

MainIgnores == {[d \in Dirs |-> {}], [d \in Dirs |-> IF d = Root THEN {"a"} ELSE {}]}
MainDocuments == {Absent, Present(<<"a">> \o start_marker \o end_marker)}

InitMain ==
    /\ pc = "compose"
    /\ IdleTable /\ IdleJson /\ IdleDf
    /\ filename_regex = "" /\ matches = <<>>
    /\ new_section = <<>> /\ ncalls = 0 /\ raised = FALSE
    /\ after_first = [exists |-> FALSE, content |-> <<>>]
    /\ \E j \in Choices(JsonSlots, JsonContents), b \in Choices(BuildSlots, BuildContents) :
         /\ project \in [json : {j}, build : {b}, compose : ComposeContents, unified : BOOLEAN]
         /\ fs \in [files : {DOMAIN j \cup DOMAIN b}, ignore : MainIgnores]
    /\ readme \in MainDocuments
    /\ readme0 = readme
    /\ run = 1
    /\ doc1 = [exists |-> FALSE, content |-> <<>>]
    /\ failed_at = ""
    /\ NoLocals

SpecMain == InitMain /\ [][NextMain]_vars

\* C3: two complete runs over the same tree, from the same starting
\* document, leave the same document.
C3_TwoRunsSameDocument ==
    (run = 2 /\ pc = "done") => readme = doc1

\* C4: with no recognized configuration file and the unified flag off, the
\* content handed to the patcher is empty and the region written is the two
\* markers around nothing.
C4_EmptyWhenNothingFound ==
    (/\ pc \in {"patch", "done"}
     /\ fs.files = {}
     /\ project.compose.kind = "missing"
     /\ ~project.unified)
    => /\ md_content = <<>>
       /\ (pc = "done" /\ ~readme0.exists => readme.content = wrapped_section(<<>>))

\* C8: the document is as it was before the run in every state but the one
\* after the patcher, so a run that fails leaves it untouched.
C8_WrittenLast ==
    pc /= "done" => readme = readme0

\* a run that failed hard in the devcontainer step, after tasks were
\* extracted, with a document on disk
C8_FailedInExtraction ==
    /\ pc = "failed"
    /\ failed_at = "devcontainer"
    /\ tasks_data /= <<>>
    /\ readme0.exists

AllUnparsed(files) == \A i \in 1..Len(files) : JsonFile(files[i]).kind /= "parsed"

\* C10: a file that is missing, unreadable or unparseable contributes no
\* record and does not stop the run.
C10_GracefulExtractors ==
    /\ (pc \notin {"compose"} /\ project.compose.kind /= "parsed")
         => (failed_at /= "compose" /\ compose_data.services = <<>>)
    /\ (pc \notin {"compose", "find", "tasks"} /\ AllUnparsed(found.tasks))
         => (failed_at /= "tasks" /\ tasks_data = <<>>)
    /\ (pc \notin {"compose", "find", "tasks", "launch"} /\ AllUnparsed(found.launch))
         => (failed_at /= "launch" /\ launch_data = <<>>)
    /\ (pc \notin {"compose", "find", "tasks", "launch", "devcontainer"}
        /\ AllUnparsed(found.devcontainer))
         => (failed_at /= "devcontainer" /\ devcontainer_data = <<>>)
    /\ (pc \in {"render", "patch", "done"}
        \/ (pc = "failed" /\ failed_at = "patch"))
         => Len(dockerfile_data) =
              Cardinality({i \in 1..Len(dockerfiles) : BuildFile(dockerfiles[i]).readable})

====
